---- MODULE Spec2Model ----
(***************************************************************************)
(* The `align` directive of src/library/align.rs: argument extraction, the *)
(* alignment resolver `dedup_aligns` (one step per loop iteration), the    *)
(* command sequence `align` returns, and the layouter that evaluates the   *)
(* directives of a syntax tree and executes the commands they return.     *)
(***************************************************************************)
EXTENDS Integers, Sequences, FiniteSets, TLC

\* ------------------------------------------------------------------ bounds

\* SpecDoc: directives evaluated in one layout pass.
MaxCalls == 3
\* SpecDoc: nesting depth of directive bodies below the root tree.
MaxDepth == 2
\* SpecDoc: alignment arguments written in the whole document.
MaxArgs == 1
\* SpecDedup: requests in the iterator handed to dedup_aligns.
MaxLen == 3
\* SpecOrder: requests in an iterator whose orderings are compared.
MaxOrd == 2

\* ------------------------------------------------------------- data model

None == "None"

SpecAlign == {"Left", "Right", "Top", "Bottom", "Center"}
SpecAxis == {"Horizontal", "Vertical"}
GenAlign == {"Start", "Center", "End"}
GenAxis == {"primary", "secondary"}
Dir == {"LTR", "RTL", "TTB", "BTT"}

\* LayoutAlign = Gen2<GenAlign>
LayoutAlign == [primary : GenAlign, secondary : GenAlign]

\* Dir::axis
DirAxis(dir) == IF dir \in {"LTR", "RTL"} THEN "Horizontal" ELSE "Vertical"

\* Dir::is_positive
IsPositive(dir) == dir \in {"LTR", "TTB"}

\* LayoutSystem = Gen2<Dir>: the two directions lie on different axes.
LayoutSystem ==
    {sys \in [primary : Dir, secondary : Dir] :
        DirAxis(sys.primary) # DirAxis(sys.secondary)}

\* SpecAlign::axis
Axis(align) ==
    CASE align \in {"Left", "Right"} -> "Horizontal"
      [] align \in {"Top", "Bottom"} -> "Vertical"
      [] OTHER -> None

\* SpecAxis::to_gen
AxisToGen(axis, sys) ==
    IF DirAxis(sys.primary) = axis THEN "primary" ELSE "secondary"

\* GenAlign::inv
Inv(gen_align) ==
    CASE gen_align = "Start" -> "End"
      [] gen_align = "End" -> "Start"
      [] OTHER -> "Center"

\* SpecAlign::to_gen
AlignToGen(align, sys) ==
    LET get(axis, positive) ==
            IF IsPositive(sys[AxisToGen(axis, sys)]) THEN positive ELSE Inv(positive)
    IN CASE align = "Left" -> get("Horizontal", "Start")
         [] align = "Right" -> get("Horizontal", "End")
         [] align = "Top" -> get("Vertical", "Start")
         [] align = "Bottom" -> get("Vertical", "End")
         [] OTHER -> "Center"

\* Gen2::new(false, false)
HadNone == [primary |-> FALSE, secondary |-> FALSE]

\* The argument slots of `align`, in the order the requests are chained.
Slots == <<"first", "second", "horizontal", "vertical">>

\* An argument is absent (None) or a spanned SpecAlign.
OptAlign == SpecAlign \cup {None}

\* The alignment arguments of one directive, as args.get extracts them: the
\* slots in `present` hold a value, the others are absent.
ArgListsWith(present) ==
    {[k \in {"first", "second", "horizontal", "vertical"} |->
        IF k \in present THEN vals[k] ELSE None] : vals \in [present -> SpecAlign]}

\* The argument lists with at most n arguments.
ArgListsUpTo(n) ==
    UNION {ArgListsWith(present) :
            present \in {p \in SUBSET {"first", "second", "horizontal", "vertical"} :
                            Cardinality(p) <= n}}

\* The syntax tree of the document; a directive's body is the tree named by
\* the number of the directive.
RootTree == 0
NoTree == -1

\* Command::SetAlignment and Command::LayoutSyntaxTree
SetAlignment(align) == [cmd |-> "SetAlignment", align |-> align]
LayoutSyntaxTree(tree) == [cmd |-> "LayoutSyntaxTree", tree |-> tree]

\* error!(span, message): the diagnostic ctx.diag receives; the axis is the
\* argument of the message.
Diag(msg, span, axis) == [msg |-> msg, span |-> span, axis |-> axis]

\* ---------------------------------------------------------------- resolver

\* Faulty variant of Iter: the vertical keyword is chained before the horizontal one.
IterVerticalFirst(call, first, second, hor, ver) ==
    LET req(axis, v, slot) == [axis |-> axis, v |-> v, span |-> <<call, slot>>]
        one(opt, axis, slot) == IF opt = None THEN <<>> ELSE <<req(axis, opt, slot)>>
    IN one(first, Axis(first), "first")
       \o one(second, Axis(second), "second")
       \o one(ver, "Vertical", "vertical")
       \o one(hor, "Horizontal", "horizontal")

\* Faulty variant of Iter: a positional request never carries an axis.
IterPositionalNoAxis(call, first, second, hor, ver) ==
    LET req(axis, v, slot) == [axis |-> axis, v |-> v, span |-> <<call, slot>>]
        one(opt, axis, slot) == IF opt = None THEN <<>> ELSE <<req(axis, opt, slot)>>
    IN one(first, None, "first")
       \o one(second, None, "second")
       \o one(hor, "Horizontal", "horizontal")
       \o one(ver, "Vertical", "vertical")

\* Faulty variant of Iter: a keyword request takes the axis of its value, as a
\* positional one does.
IterAllByValue(call, first, second, hor, ver) ==
    LET req(axis, v, slot) == [axis |-> axis, v |-> v, span |-> <<call, slot>>]
        one(opt, axis, slot) == IF opt = None THEN <<>> ELSE <<req(axis, opt, slot)>>
    IN one(first, Axis(first), "first")
       \o one(second, Axis(second), "second")
       \o one(hor, Axis(hor), "horizontal")
       \o one(ver, Axis(ver), "vertical")

\* align.rs:25-30: the request iterator built from the four extracted values.
\* A positional request takes the axis of its value, a keyword request the
\* axis of its keyword; the span is the call and the slot of the argument.
Iter(call, first, second, hor, ver) ==
    LET req(axis, v, slot) == [axis |-> axis, v |-> v, span |-> <<call, slot>>]
        one(opt, axis, slot) == IF opt = None THEN <<>> ELSE <<req(axis, opt, slot)>>
    IN one(first, Axis(first), "first")
       \o one(second, Axis(second), "second")
       \o one(hor, "Horizontal", "horizontal")
       \o one(ver, "Vertical", "vertical")

\* The locals of dedup_aligns, with the diagnostics of the current iteration.
Locals(a, h, hc, ds) == [aligns |-> a, had |-> h, had_center |-> hc, diags |-> ds]

\* Faulty variant of KnownAxis: a second alignment for an axis is reported and
\* overwrites the first.
KnownAxisLastWins(d, sys, axis, align, span) ==
    LET gen_axis == AxisToGen(axis, sys)
        gen_align == AlignToGen(align, sys)
    IN IF Axis(align) # None /\ Axis(align) # axis
       THEN [d EXCEPT !.diags = Append(@, Diag("invalid alignment for axis", span, axis))]
       ELSE IF d.had[gen_axis]
       THEN [d EXCEPT !.aligns[gen_axis] = gen_align,
                      !.diags = Append(@, Diag("duplicate alignment for axis", span, axis))]
       ELSE [d EXCEPT !.aligns[gen_axis] = gen_align, !.had[gen_axis] = TRUE]

\* Faulty variant of KnownAxis: the duplicate is tested before the axis of the value.
KnownAxisDuplicateFirst(d, sys, axis, align, span) ==
    LET gen_axis == AxisToGen(axis, sys)
        gen_align == AlignToGen(align, sys)
    IN IF d.had[gen_axis]
       THEN [d EXCEPT !.diags = Append(@, Diag("duplicate alignment for axis", span, axis))]
       ELSE IF Axis(align) # None /\ Axis(align) # axis
       THEN [d EXCEPT !.diags = Append(@, Diag("invalid alignment for axis", span, axis))]
       ELSE [d EXCEPT !.aligns[gen_axis] = gen_align, !.had[gen_axis] = TRUE]

\* Faulty variant of KnownAxis: a rejected alignment resets its axis to the
\* default alignment.
KnownAxisMismatchDefault(d, sys, axis, align, span) ==
    LET gen_axis == AxisToGen(axis, sys)
        gen_align == AlignToGen(align, sys)
    IN IF Axis(align) # None /\ Axis(align) # axis
       THEN [d EXCEPT !.aligns[gen_axis] = "Start",
                      !.diags = Append(@, Diag("invalid alignment for axis", span, axis))]
       ELSE IF d.had[gen_axis]
       THEN [d EXCEPT !.diags = Append(@, Diag("duplicate alignment for axis", span, axis))]
       ELSE [d EXCEPT !.aligns[gen_axis] = gen_align, !.had[gen_axis] = TRUE]

\* Faulty variant of KnownAxis: no test for an axis that is already known.
KnownAxisNoGuard(d, sys, axis, align, span) ==
    LET gen_axis == AxisToGen(axis, sys)
        gen_align == AlignToGen(align, sys)
    IN IF Axis(align) # None /\ Axis(align) # axis
       THEN [d EXCEPT !.diags = Append(@, Diag("invalid alignment for axis", span, axis))]
       ELSE [d EXCEPT !.aligns[gen_axis] = gen_align, !.had[gen_axis] = TRUE]

\* align.rs:57-70: a request whose axis is known.
KnownAxis(d, sys, axis, align, span) ==
    LET gen_axis == AxisToGen(axis, sys)
        gen_align == AlignToGen(align, sys)
    IN IF Axis(align) # None /\ Axis(align) # axis
       THEN [d EXCEPT !.diags = Append(@, Diag("invalid alignment for axis", span, axis))]
       ELSE IF d.had[gen_axis]
       THEN [d EXCEPT !.diags = Append(@, Diag("duplicate alignment for axis", span, axis))]
       ELSE [d EXCEPT !.aligns[gen_axis] = gen_align, !.had[gen_axis] = TRUE]

\* Faulty variant of UnknownAxis: a second unspecified `center` is not collapsed onto
\* both axes.
UnknownAxisNoCollapse(d, span) ==
    IF d.had.primary /\ d.had.secondary
    THEN [d EXCEPT !.diags = Append(@, Diag("duplicate alignment", span, None))]
    ELSE [d EXCEPT !.had_center = TRUE]

\* Faulty variant of UnknownAxis: an unspecified `center` is taken in even when
\* both axes are known.
UnknownAxisNoLimit(d, span) ==
    IF d.had_center
    THEN [d EXCEPT !.aligns = [primary |-> "Center", secondary |-> "Center"],
                   !.had = [primary |-> TRUE, secondary |-> TRUE]]
    ELSE [d EXCEPT !.had_center = TRUE]

\* Faulty variant of UnknownAxis: with one axis known, an unspecified `center`
\* goes to the primary axis at once.
UnknownAxisEager(d, span) ==
    IF d.had.primary /\ d.had.secondary
    THEN [d EXCEPT !.diags = Append(@, Diag("duplicate alignment", span, None))]
    ELSE IF d.had_center
    THEN [d EXCEPT !.aligns = [primary |-> "Center", secondary |-> "Center"],
                   !.had = [primary |-> TRUE, secondary |-> TRUE]]
    ELSE IF d.had.primary \/ d.had.secondary
    THEN [d EXCEPT !.aligns.primary = "Center", !.had.primary = TRUE]
    ELSE [d EXCEPT !.had_center = TRUE]

\* align.rs:76-86: a request whose axis is unknown (a positional `center`).
UnknownAxis(d, span) ==
    IF d.had.primary /\ d.had.secondary
    THEN [d EXCEPT !.diags = Append(@, Diag("duplicate alignment", span, None))]
    ELSE IF d.had_center
    THEN [d EXCEPT !.aligns = [primary |-> "Center", secondary |-> "Center"],
                   !.had = [primary |-> TRUE, secondary |-> TRUE]]
    ELSE [d EXCEPT !.had_center = TRUE]

\* Faulty variant of DeduceCenter: the `center` stays pending after it is handled.
DeduceCenterKeepsPending(d) ==
    IF d.had_center /\ (d.had.primary \/ d.had.secondary)
    THEN IF d.had.primary
         THEN [d EXCEPT !.aligns.secondary = "Center", !.had.secondary = TRUE]
         ELSE [d EXCEPT !.aligns.primary = "Center", !.had.primary = TRUE]
    ELSE d

\* Faulty variant of DeduceCenter: the `center` goes to the axis that is known.
DeduceCenterSwapped(d) ==
    IF d.had_center /\ (d.had.primary \/ d.had.secondary)
    THEN IF d.had.primary
         THEN [d EXCEPT !.aligns.primary = "Center", !.had.primary = TRUE,
                        !.had_center = FALSE]
         ELSE [d EXCEPT !.aligns.secondary = "Center", !.had.secondary = TRUE,
                        !.had_center = FALSE]
    ELSE d

\* align.rs:91-100: the unspecified `center` is handled once one axis is known.
DeduceCenter(d) ==
    IF d.had_center /\ (d.had.primary \/ d.had.secondary)
    THEN IF d.had.primary
         THEN [d EXCEPT !.aligns.secondary = "Center", !.had.secondary = TRUE,
                        !.had_center = FALSE]
         ELSE [d EXCEPT !.aligns.primary = "Center", !.had.primary = TRUE,
                        !.had_center = FALSE]
    ELSE d

\* align.rs:53-101: one iteration of the loop.
LoopBody(d, sys, req) ==
    DeduceCenter(IF req.axis # None
                 THEN KnownAxis(d, sys, req.axis, req.v, req.span)
                 ELSE UnknownAxis(d, req.span))

\* Faulty variant of InitialAligns: the alignment being built starts from a fixed
\* default instead of the ambient alignment.
InitialAlignsDefault(ctx_state) == [primary |-> "Start", secondary |-> "Start"]

\* align.rs:49: the alignment being built starts as the ambient alignment.
InitialAligns(ctx_state) == ctx_state.align

\* Faulty variant of Finalize: the pending `center` goes to the secondary axis.
FinalizeSecondary(a, hc) ==
    IF hc THEN [a EXCEPT !.secondary = "Center"] ELSE a

\* align.rs:103-109: a `center` not flushed by now goes to the primary axis.
Finalize(a, hc) ==
    IF hc THEN [a EXCEPT !.primary = "Center"] ELSE a

\* align.rs:53-101: the loop over the requests of the iterator.
RECURSIVE Loop(_, _, _)
Loop(d, sys, requests) ==
    IF requests = <<>>
    THEN d
    ELSE Loop(LoopBody(d, sys, Head(requests)), sys, Tail(requests))

\* align.rs:45-110: dedup_aligns as a function of the state and the iterator:
\* the alignment it returns and the diagnostics it reports.
DedupAligns(ctx_state, requests) ==
    LET d == Loop(Locals(InitialAligns(ctx_state), HadNone, FALSE, <<>>),
                  ctx_state.sys, requests)
    IN [aligns |-> Finalize(d.aligns, d.had_center), diags |-> d.diags]

\* Faulty variant of Commands: the restoring command is left out.
CommandsNoRestore(body, new, ambient) ==
    IF body # NoTree
    THEN << SetAlignment(new),
            LayoutSyntaxTree(body) >>
    ELSE << SetAlignment(new) >>

\* Faulty variant of Commands: the last command carries the new alignment, as if the
\* ambient alignment were read after it had been overwritten.
CommandsRestoreNew(body, new, ambient) ==
    IF body # NoTree
    THEN << SetAlignment(new),
            LayoutSyntaxTree(body),
            SetAlignment(new) >>
    ELSE << SetAlignment(new) >>

\* Faulty variant of Commands: the ambient alignment is restored without a body too.
CommandsAlwaysRestore(body, new, ambient) ==
    IF body # NoTree
    THEN << SetAlignment(new),
            LayoutSyntaxTree(body),
            SetAlignment(ambient) >>
    ELSE << SetAlignment(new),
            SetAlignment(ambient) >>

\* align.rs:34-41: the commands `align` returns.
Commands(body, new, ambient) ==
    IF body # NoTree
    THEN << SetAlignment(new),
            LayoutSyntaxTree(body),
            SetAlignment(ambient) >>
    ELSE << SetAlignment(new) >>


\* -------------------------------------------------------------------- state

VARIABLES
    state,       \* ctx.state: the ambient alignment and the layout system
    f,           \* ctx.f: the diagnostics reported so far
    stack,       \* the layouter: one frame per tree being laid out
    pc,          \* "layout": the layouter runs; "dedup": inside dedup_aligns
    body,        \* align: the body found among the arguments
    iter,        \* dedup_aligns: the requests not yet consumed
    aligns,      \* dedup_aligns: the alignment being built, then returned
    had,         \* dedup_aligns: the axes that have an alignment
    had_center,  \* dedup_aligns: an unspecified `center` is pending
    calls,       \* directives evaluated so far
    nargs,       \* alignment arguments extracted so far
    reqs,        \* history: all requests of the directive being evaluated
    overwritten  \* history: the ambient alignment the last SetAlignment replaced

vars ==
    <<state, f, stack, pc, body, iter, aligns, had, had_center, calls, nargs,
      reqs, overwritten>>

locals == <<body, iter, aligns, had, had_center>>

\* A frame of the layouter: the tree it lays out, the commands returned by
\* the directive evaluated last, the index of the next command to execute,
\* and (history) the ambient alignment and the number of diagnostics when
\* the directive under evaluation, or evaluated last, was called.
Frame(tree, value, i, at_call, f_len) ==
    [tree |-> tree, value |-> value, i |-> i, at_call |-> at_call, f_len |-> f_len]

Top == stack[Len(stack)]
Pop == SubSeq(stack, 1, Len(stack) - 1)

\* The frame has executed all commands of its current node.
Idle(frame) == frame.i > Len(frame.value)

Init ==
    /\ state \in [align : LayoutAlign, sys : LayoutSystem]
    /\ f = <<>>
    /\ stack = << Frame(RootTree, <<>>, 1, state.align, 0) >>
    /\ pc = "layout"
    /\ body = NoTree
    /\ iter = <<>>
    /\ aligns = state.align
    /\ had = HadNone
    /\ had_center = FALSE
    /\ calls = 0
    /\ nargs = 0
    /\ reqs = <<>>
    /\ overwritten = state.align

\* ------------------------------------------------------------------ actions

\* align.rs:17-30 and 49-51: the layouter reaches an `align` directive of the
\* tree it lays out; the arguments are extracted and dedup_aligns is entered.
\* The document holds at most max_calls directives with max_args alignment
\* arguments in all.
Call(max_calls, max_args) ==
    /\ pc = "layout"
    /\ stack # <<>>
    /\ Idle(Top)
    /\ calls < max_calls
    /\ \E args \in ArgListsUpTo(max_args - nargs) :
          LET it == Iter(calls + 1, args.first, args.second,
                         args.horizontal, args.vertical) IN
          /\ iter' = it
          /\ reqs' = it
          /\ nargs' = nargs + Len(it)
    /\ \E has_body \in BOOLEAN :
          /\ has_body => Len(stack) <= MaxDepth
          /\ body' = IF has_body THEN calls + 1 ELSE NoTree
    /\ calls' = calls + 1
    /\ aligns' = InitialAligns(state)
    /\ had' = HadNone
    /\ had_center' = FALSE
    /\ stack' = [stack EXCEPT ![Len(stack)] =
                    Frame(Top.tree, Top.value, Top.i, state.align, Len(f))]
    /\ pc' = "dedup"
    /\ UNCHANGED <<state, f, overwritten>>

\* Faulty variant of Request: the first diagnostic ends the loop, the requests
\* after it are never looked at.
RequestStopsAtDiag ==
    /\ pc = "dedup"
    /\ iter # <<>>
    /\ LET d == LoopBody(Locals(aligns, had, had_center, <<>>), state.sys, Head(iter)) IN
          /\ aligns' = d.aligns
          /\ had' = d.had
          /\ had_center' = d.had_center
          /\ f' = f \o d.diags
          /\ iter' = IF d.diags # <<>> THEN <<>> ELSE Tail(iter)
    /\ UNCHANGED <<state, stack, pc, body, calls, nargs, reqs, overwritten>>

\* Faulty variant of Request: dedup_aligns builds the alignment in place, in the
\* ambient state of the context.
RequestInPlace ==
    /\ pc = "dedup"
    /\ iter # <<>>
    /\ LET d == LoopBody(Locals(aligns, had, had_center, <<>>), state.sys, Head(iter)) IN
          /\ aligns' = d.aligns
          /\ state' = [state EXCEPT !.align = d.aligns]
          /\ had' = d.had
          /\ had_center' = d.had_center
          /\ f' = f \o d.diags
    /\ iter' = Tail(iter)
    /\ UNCHANGED <<stack, pc, body, calls, nargs, reqs, overwritten>>

\* align.rs:53-101: dedup_aligns consumes the next request.
Request ==
    /\ pc = "dedup"
    /\ iter # <<>>
    /\ LET d == LoopBody(Locals(aligns, had, had_center, <<>>), state.sys, Head(iter)) IN
          /\ aligns' = d.aligns
          /\ had' = d.had
          /\ had_center' = d.had_center
          /\ f' = f \o d.diags
    /\ iter' = Tail(iter)
    /\ UNCHANGED <<state, stack, pc, body, calls, nargs, reqs, overwritten>>

\* align.rs:103-109 and 34-41: the requests are exhausted; dedup_aligns
\* returns and `align` returns its commands to the layouter.
Return ==
    /\ pc = "dedup"
    /\ iter = <<>>
    /\ aligns' = Finalize(aligns, had_center)
    /\ stack' = [stack EXCEPT ![Len(stack)] =
                    Frame(Top.tree, Commands(body, Finalize(aligns, had_center), state.align),
                          1, Top.at_call, Top.f_len)]
    /\ pc' = "layout"
    /\ UNCHANGED <<state, f, body, iter, had, had_center, calls, nargs, reqs, overwritten>>

\* The layouter executes SetAlignment(align). With the first command of a
\* directive the locals of its evaluation are gone.
ExecSetAlignment ==
    /\ pc = "layout"
    /\ stack # <<>>
    /\ ~Idle(Top)
    /\ Top.value[Top.i].cmd = "SetAlignment"
    /\ state' = [state EXCEPT !.align = Top.value[Top.i].align]
    /\ overwritten' = state.align
    /\ stack' = [stack EXCEPT ![Len(stack)].i = @ + 1]
    /\ IF Top.i = 1
       THEN /\ body' = NoTree
            /\ aligns' = Top.value[Top.i].align
            /\ had' = HadNone
            /\ had_center' = FALSE
            /\ reqs' = <<>>
            /\ UNCHANGED iter
       ELSE UNCHANGED <<locals, reqs>>
    /\ UNCHANGED <<f, pc, calls, nargs>>

\* The layouter executes LayoutSyntaxTree(tree): the tree is laid out in a
\* new frame under the same context.
ExecLayoutSyntaxTree ==
    /\ pc = "layout"
    /\ stack # <<>>
    /\ ~Idle(Top)
    /\ Top.value[Top.i].cmd = "LayoutSyntaxTree"
    /\ stack' = Append([stack EXCEPT ![Len(stack)].i = @ + 1],
                       Frame(Top.value[Top.i].tree, <<>>, 1, state.align, Len(f)))
    /\ UNCHANGED <<state, f, pc, locals, calls, nargs, reqs, overwritten>>

\* The tree of the top frame has no further node: its layout ends.
EndTree ==
    /\ pc = "layout"
    /\ stack # <<>>
    /\ Idle(Top)
    /\ stack' = Pop
    /\ UNCHANGED <<state, f, pc, locals, calls, nargs, reqs, overwritten>>

\* One directive with any argument list, evaluated under any ambient
\* alignment and layout system, and the execution of its commands.
Next ==
    \/ Call(1, Len(Slots))
    \/ Request
    \/ Return
    \/ ExecSetAlignment
    \/ ExecLayoutSyntaxTree
    \/ EndTree

Spec == Init /\ [][Next]_vars

\* A document of up to MaxCalls directives, nested up to MaxDepth deep, with
\* up to MaxArgs alignment arguments in all.
NextDoc ==
    \/ Call(MaxCalls, MaxArgs)
    \/ Request
    \/ Return
    \/ ExecSetAlignment
    \/ ExecLayoutSyntaxTree
    \/ EndTree

SpecDoc == Init /\ [][NextDoc]_vars

\* align.rs:45-48 and 74: what a request of the iterator of dedup_aligns can
\* be: an axis with any alignment, or no axis with `center`.
RequestKinds == {<<None, "Center">>} \cup (SpecAxis \X SpecAlign)

\* align.rs:45-51: dedup_aligns is entered with an iterator of up to max_len
\* requests of any kind; the span of a request is its place in the iterator.
CallDedup(max_len) ==
    /\ pc = "layout"
    /\ stack # <<>>
    /\ Idle(Top)
    /\ calls < 1
    /\ \E m \in 0 .. max_len :
          \E kinds \in [1 .. m -> RequestKinds] :
             LET it == [k \in 1 .. m |->
                          [axis |-> kinds[k][1], v |-> kinds[k][2],
                           span |-> <<calls + 1, k>>]] IN
             /\ iter' = it
             /\ reqs' = it
             /\ nargs' = nargs + m
    /\ body' = NoTree
    /\ calls' = calls + 1
    /\ aligns' = InitialAligns(state)
    /\ had' = HadNone
    /\ had_center' = FALSE
    /\ stack' = [stack EXCEPT ![Len(stack)] =
                    Frame(Top.tree, Top.value, Top.i, state.align, Len(f))]
    /\ pc' = "dedup"
    /\ UNCHANGED <<state, f, overwritten>>

\* dedup_aligns on its own: any iterator of up to MaxLen requests, resolved
\* under any ambient alignment and layout system.
NextDedup ==
    \/ CallDedup(MaxLen)
    \/ Request
    \/ Return

SpecDedup == Init /\ [][NextDedup]_vars

\* The same with the shorter iterators whose orderings are compared.
NextOrder ==
    \/ CallDedup(MaxOrd)
    \/ Request
    \/ Return

SpecOrder == Init /\ [][NextOrder]_vars

\* ------------------------------------------------------------------ claims

\* `align` has returned and none of its commands is executed yet.
Returned == pc = "layout" /\ stack # <<>> /\ Top.value # <<>> /\ Top.i = 1

\* The diagnostics of the directive under evaluation, or evaluated last.
NewDiags == SubSeq(f, Top.f_len + 1, Len(f))

\* The number of requests dedup_aligns has consumed.
Consumed == Len(reqs) - Len(iter)

\* The directive that returned these commands had no body.
BodyLess(frame) ==
    /\ frame.value # <<>>
    /\ \A j \in 1 .. Len(frame.value) : frame.value[j].cmd # "LayoutSyntaxTree"

\* C1: with a body `align` returns exactly SetAlignment(new resolved value),
\* LayoutSyntaxTree(body), SetAlignment(ambient alignment as it was when
\* `align` was called), in this order; without a body it returns exactly
\* SetAlignment(new resolved value).
C1_CommandSequence ==
    Returned =>
        IF body # NoTree
        THEN /\ Len(Top.value) = 3
             /\ Top.value[1] = SetAlignment(aligns)
             /\ Top.value[2] = LayoutSyntaxTree(body)
             /\ Top.value[3] = SetAlignment(Top.at_call)
        ELSE Top.value = << SetAlignment(aligns) >>

\* A directive with a body has returned, and its new alignment differs from
\* the ambient one on both axes.
C1_Witness ==
    /\ Returned
    /\ body # NoTree
    /\ Len(Top.value) = 3
    /\ aligns.primary # Top.at_call.primary
    /\ aligns.secondary # Top.at_call.secondary

\* C2: for every directive with a body, the ambient alignment is the new
\* value when the layout of the body begins, and it is the value from before
\* the call once the third command is executed, whatever the directives
\* inside the body did to the ambient alignment and to the diagnostics.
C2_ScopedRestore ==
    \A k \in 1 .. Len(stack) :
        (pc = "layout" /\ k = Len(stack) /\ Len(stack[k].value) = 3) =>
            /\ stack[k].i = 2 => state.align = stack[k].value[1].align
            /\ stack[k].i = 4 => state.align = stack[k].at_call

\* The outermost directive has restored the ambient alignment after two
\* directives inside its body were evaluated, and the restore replaced an
\* alignment that a directive inside the body had set.
C2_Witness ==
    /\ pc = "layout"
    /\ Len(stack) = 1
    /\ Len(Top.value) = 3
    /\ Top.value[2].tree = 1
    /\ Top.i = 4
    /\ calls = 3
    /\ state.align = Top.at_call
    /\ overwritten # Top.at_call
    /\ overwritten # Top.value[1].align

\* An axis that neither a request nor the pending `center` has set.
Unset(axis) == ~had[axis] /\ ~(axis = "primary" /\ had_center)

\* C3: the new alignment of a directive without a body stays the ambient
\* alignment after its command is executed; the next directive of the same
\* tree is resolved from it, and every axis that directive leaves unset keeps
\* it, in the loop and in the alignment it returns.
C3_BodyLessPersists ==
    /\ (pc = "layout" /\ stack # <<>> /\ BodyLess(Top) /\ Idle(Top)) =>
            state.align = Top.value[1].align
    /\ (pc = "dedup" /\ BodyLess(Top)) =>
            /\ Top.at_call = Top.value[1].align
            /\ \A axis \in GenAxis :
                  ~had[axis] => aligns[axis] = Top.value[1].align[axis]
    /\ Returned =>
            \A axis \in GenAxis :
                Unset(axis) => Top.value[1].align[axis] = Top.at_call[axis]

\* The second directive of the document has been resolved after a directive
\* without a body that changed the ambient alignment: it starts from, and
\* keeps, the alignment that directive set.
C3_Witness ==
    /\ pc = "dedup"
    /\ BodyLess(Top)
    /\ Len(stack) = 1
    /\ calls = 2
    /\ iter = <<>>
    /\ aligns = Top.value[1].align
    /\ Top.value[1].align # overwritten
    /\ state.align = Top.value[1].align

\* The value of a request does not fit the axis the request carries.
Mismatch(req) == req.axis # None /\ Axis(req.v) # None /\ Axis(req.v) # req.axis

\* The request comes from a keyword argument.
Keyword(req) == req.span[2] \in {"horizontal", "vertical"}

OtherAxis(gen_axis) == IF gen_axis = "primary" THEN "secondary" ELSE "primary"

\* C4: when the requests end with an unspecified `center` still pending, the
\* returned alignment has primary = Center and the secondary value of the
\* previous alignment.
C4_PendingCenterToPrimary ==
    (Returned /\ had_center) =>
        /\ Top.value[1].align.primary = "Center"
        /\ Top.value[1].align.secondary = Top.at_call.secondary

\* A single positional `center` was resolved from an alignment that is
\* centered on neither axis.
C4_Witness ==
    /\ Returned
    /\ had_center
    /\ Len(reqs) = 1
    /\ reqs[1].v = "Center"
    /\ Top.at_call.primary # "Center"
    /\ Top.at_call.secondary # "Center"
    /\ Top.value[1].align.primary = "Center"

\* Both positional arguments are present and are `center`.
TwoCenters ==
    /\ Len(reqs) >= 2
    /\ reqs[1].span[2] = "first" /\ reqs[1].v = "Center"
    /\ reqs[2].span[2] = "second" /\ reqs[2].v = "Center"

\* C5: when both positional requests are `center`, then from the second
\* request on no `center` is pending, both axes are confirmed and the
\* alignment is (Center, Center), which is also the alignment returned, for
\* every previous alignment and every layout system.
C5_TwoCentersCollapse ==
    (TwoCenters /\ Consumed >= 2 /\ (pc = "dedup" \/ Returned)) =>
        /\ ~had_center
        /\ had.primary /\ had.secondary
        /\ aligns = [primary |-> "Center", secondary |-> "Center"]
        /\ Returned => Top.value[1].align = [primary |-> "Center", secondary |-> "Center"]

\* `center, center` with both keyword arguments was resolved from an
\* alignment that is centered on neither axis.
C5_Witness ==
    /\ Returned
    /\ TwoCenters
    /\ Len(reqs) = 4
    /\ Top.at_call.primary # "Center"
    /\ Top.at_call.secondary # "Center"
    /\ Top.value[1].align = [primary |-> "Center", secondary |-> "Center"]

\* The requests are one positional `center` and one request that carries an
\* axis its value fits; c and e are their places.
CenterAndExplicit(c, e) ==
    /\ Len(reqs) = 2
    /\ {c, e} = {1, 2}
    /\ reqs[c].axis = None
    /\ reqs[e].axis # None
    /\ ~Mismatch(reqs[e])

\* C6: one positional `center` and one valid request with an axis, in either
\* order: the axis of that request gets its mapped alignment, the other axis
\* gets Center, and no diagnostic is reported.
C6_CenterTakesOtherAxis ==
    \A c, e \in {1, 2} :
        (Returned /\ CenterAndExplicit(c, e)) =>
            LET gen_axis == AxisToGen(reqs[e].axis, state.sys) IN
            /\ Top.value[1].align[gen_axis] = AlignToGen(reqs[e].v, state.sys)
            /\ Top.value[1].align[OtherAxis(gen_axis)] = "Center"
            /\ NewDiags = <<>>

\* A positional `center` before a keyword request with a directional value
\* was resolved, and the previous alignment was not centered on the axis the
\* `center` went to.
C6_Witness ==
    /\ Returned
    /\ CenterAndExplicit(1, 2)
    /\ Keyword(reqs[2])
    /\ reqs[2].v # "Center"
    /\ Top.at_call[OtherAxis(AxisToGen(reqs[2].axis, state.sys))] # "Center"
    /\ Top.value[1].align[OtherAxis(AxisToGen(reqs[2].axis, state.sys))] = "Center"

\* The requests are two requests for the same axis, both with fitting values.
TwoSameAxis ==
    /\ Len(reqs) = 2
    /\ reqs[1].axis # None
    /\ reqs[1].axis = reqs[2].axis
    /\ ~Mismatch(reqs[1])
    /\ ~Mismatch(reqs[2])

\* C7: two valid requests for the same axis: exactly one diagnostic is
\* reported, it is the duplicate-axis diagnostic of the second request, and
\* the axis holds the mapped value of the first request.
C7_DuplicateAxisFirstWins ==
    (Returned /\ TwoSameAxis) =>
        /\ NewDiags = << Diag("duplicate alignment for axis", reqs[2].span, reqs[2].axis) >>
        /\ Top.value[1].align[AxisToGen(reqs[1].axis, state.sys)] =
                AlignToGen(reqs[1].v, state.sys)

\* A positional value and a keyword value for the same axis, mapped to
\* different alignments, were resolved.
C7_Witness ==
    /\ Returned
    /\ TwoSameAxis
    /\ Keyword(reqs[2])
    /\ ~Keyword(reqs[1])
    /\ AlignToGen(reqs[1].v, state.sys) # AlignToGen(reqs[2].v, state.sys)
    /\ Len(NewDiags) = 1

\* C8: a keyword request whose value belongs to the other axis reports one
\* axis-mismatch diagnostic and changes neither the alignment nor the
\* confirmed axes nor the pending `center`, also when the axis of the keyword
\* is already confirmed.
C8_MismatchStep ==
    (pc = "dedup" /\ iter # <<>> /\ Keyword(Head(iter)) /\ Mismatch(Head(iter))) =>
        /\ aligns' = aligns
        /\ had' = had
        /\ had_center' = had_center
        /\ f' = Append(f, Diag("invalid alignment for axis", Head(iter).span, Head(iter).axis))

C8_KeywordMismatchDropped == [][C8_MismatchStep]_vars

\* The request consumed last is a mismatched keyword request for an axis
\* that was confirmed before, and the diagnostic reported last is its
\* axis-mismatch diagnostic.
C8_Witness ==
    /\ pc = "dedup"
    /\ Consumed >= 2
    /\ Keyword(reqs[Consumed])
    /\ Mismatch(reqs[Consumed])
    /\ had[AxisToGen(reqs[Consumed].axis, state.sys)]
    /\ Len(NewDiags) = 1
    /\ f[Len(f)] = Diag("invalid alignment for axis", reqs[Consumed].span, reqs[Consumed].axis)

\* C9: without alignment arguments the resolver returns the previous
\* alignment and reports nothing; `align` returns SetAlignment(old), or
\* SetAlignment(old), LayoutSyntaxTree(body), SetAlignment(old), and the
\* execution of these commands leaves the ambient alignment as it was.
C9_NoArguments ==
    /\ (Returned /\ reqs = <<>>) =>
            /\ aligns = Top.at_call
            /\ NewDiags = <<>>
            /\ Top.value = IF body # NoTree
                            THEN << SetAlignment(Top.at_call), LayoutSyntaxTree(body),
                                    SetAlignment(Top.at_call) >>
                            ELSE << SetAlignment(Top.at_call) >>
    /\ (pc = "layout" /\ stack # <<>> /\ calls = 1 /\ nargs = 0 /\ Top.tree = RootTree) =>
            state.align = Top.at_call

\* A directive with a body and no alignment argument has had its three
\* commands executed.
C9_Witness ==
    /\ pc = "layout"
    /\ Len(stack) = 1
    /\ calls = 1
    /\ nargs = 0
    /\ Top.value = << SetAlignment(Top.at_call), LayoutSyntaxTree(1),
                       SetAlignment(Top.at_call) >>
    /\ Top.i = 4
    /\ state.align = Top.at_call

\* C10: the evaluation of `align` leaves the ambient state of the context
\* as it is and only appends to the diagnostics; the ambient alignment is the
\* same when `align` returns as when it was called, and it changes only when
\* the layouter executes a SetAlignment command.
C10_EvalStep ==
    /\ (pc = "dedup" \/ pc' = "dedup") =>
            /\ state' = state
            /\ Len(f') >= Len(f)
            /\ SubSeq(f', 1, Len(f)) = f
            /\ overwritten' = overwritten
    /\ state'.align # state.align =>
            /\ pc = "layout" /\ pc' = "layout"
            /\ ~Idle(Top)
            /\ Top.value[Top.i] = SetAlignment(state'.align)

C10_EvalInv == (pc = "dedup" \/ Returned) => state.align = Top.at_call

C10_EvaluationKeepsAmbient == []C10_EvalInv /\ [][C10_EvalStep]_vars

\* `align` has returned an alignment that differs from the ambient one and
\* has reported diagnostics; the ambient alignment is still the one from the
\* call.
C10_Witness ==
    /\ Returned
    /\ Top.value[1].align # state.align
    /\ Len(NewDiags) >= 2
    /\ state.align = Top.at_call

\* C11: dedup_aligns runs to completion whatever diagnostics are raised: in
\* every state of the loop the next iteration or the return can be executed,
\* every iteration consumes exactly one request and stays in the loop, it
\* appends at most one diagnostic, an iteration that appends one leaves
\* aligns, had and had_center as they were, no step removes a diagnostic, and
\* the step after the last request returns an alignment.
C11_Step ==
    /\ Len(f') >= Len(f)
    /\ SubSeq(f', 1, Len(f)) = f
    /\ (pc = "dedup" /\ iter # <<>>) =>
          /\ pc' = "dedup"
          /\ iter' = Tail(iter)
          /\ Len(f') <= Len(f) + 1
          /\ Len(f') > Len(f) =>
                /\ aligns' = aligns
                /\ had' = had
                /\ had_center' = had_center
    /\ (pc = "dedup" /\ iter = <<>>) =>
          /\ pc' = "layout"
          /\ stack'[Len(stack')].value[1].align \in LayoutAlign

C11_NeverStuck == pc = "dedup" => ENABLED (Request \/ Return)

C11_DiagnosticsNeverStop == []C11_NeverStuck /\ [][C11_Step]_vars

\* A directive has returned after its second and third request raised a
\* diagnostic and its fourth request was accepted.
C11_Witness ==
    /\ Returned
    /\ Len(reqs) = 4
    /\ Len(NewDiags) = 2
    /\ NewDiags[1].span[2] = "second"
    /\ NewDiags[2].span[2] = "horizontal"
    /\ had.primary /\ had.secondary
    /\ aligns.primary # Top.at_call.primary
    /\ aligns.secondary # Top.at_call.secondary

\* The directive has requests for this generic axis, all of them were
\* rejected, and it has no unspecified `center` that could be deduced onto it.
AllRejected(gen_axis) ==
    /\ \E k \in 1 .. Len(reqs) :
          reqs[k].axis # None /\ AxisToGen(reqs[k].axis, state.sys) = gen_axis
    /\ \A k \in 1 .. Len(reqs) :
          /\ reqs[k].axis # None
          /\ AxisToGen(reqs[k].axis, state.sys) = gen_axis => Mismatch(reqs[k])

\* C12: a generic axis that no accepted request and no `center` inference
\* confirmed holds the alignment it had before the call, in the loop and in
\* the alignment returned; an axis all of whose requests were rejected holds
\* it too.
C12_UnsetAxisKeepsPrevious ==
    /\ pc = "dedup" =>
          \A axis \in GenAxis : ~had[axis] => aligns[axis] = Top.at_call[axis]
    /\ Returned =>
          \A axis \in GenAxis :
             /\ Unset(axis) => aligns[axis] = Top.at_call[axis]
             /\ AllRejected(axis) =>
                   /\ Unset(axis)
                   /\ Top.value[1].align[axis] = Top.at_call[axis]

\* A directive has returned whose requests for one axis were all rejected
\* while the other axis was set: the rejected axis holds the previous
\* alignment, which is not the default one.
C12_Witness ==
    /\ Returned
    /\ \E axis \in GenAxis :
          /\ AllRejected(axis)
          /\ aligns[axis] = Top.at_call[axis]
          /\ Top.at_call[axis] # "Start"
          /\ had[OtherAxis(axis)]
          /\ aligns[OtherAxis(axis)] # Top.at_call[OtherAxis(axis)]
    /\ NewDiags # <<>>

\* The orderings of a sequence of n requests.
Orderings(n) ==
    {p \in [1 .. n -> 1 .. n] : \A i, j \in 1 .. n : p[i] = p[j] => i = j}

Reordered(requests, p) == [k \in 1 .. Len(requests) |-> requests[p[k]]]

\* The number of requests without an axis.
BareCenters(requests) ==
    Cardinality({k \in 1 .. Len(requests) : requests[k].axis = None})

\* A diagnostic of one of the two duplicate kinds is among these.
HasDuplicate(diags) ==
    \E k \in 1 .. Len(diags) :
        diags[k].msg \in {"duplicate alignment for axis", "duplicate alignment"}

\* The alignment dedup_aligns returns for the requests of this evaluation
\* taken in the order p.
ResultOf(p) ==
    DedupAligns([align |-> Top.at_call, sys |-> state.sys], Reordered(reqs, p))

\* C13 as stated: apart from the collapse of two unspecified `center`, the
\* alignment returned is the same for every ordering of the requests.
C13_OrderIndependent ==
    (Returned /\ BareCenters(reqs) < 2) =>
        \A p \in Orderings(Len(reqs)) : ResultOf(p).aligns = aligns

\* C13, amended: when the requests are resolved without a duplicate
\* diagnostic, every ordering of them is resolved without one too and
\* returns the same alignment; requests that compete for an axis are decided
\* by the order, the first one processed wins.
C13_OrderIndependentWithoutDuplicates ==
    (Returned /\ ~HasDuplicate(NewDiags)) =>
        \A p \in Orderings(Len(reqs)) :
            LET r == ResultOf(p) IN
            /\ r.aligns = aligns
            /\ ~HasDuplicate(r.diags)

\* Two requests were resolved without a diagnostic, an unspecified `center`
\* and a request with an axis, and each changed one axis.
C13_Witness ==
    /\ Returned
    /\ Len(reqs) = 2
    /\ NewDiags = <<>>
    /\ BareCenters(reqs) = 1
    /\ aligns.primary # Top.at_call.primary
    /\ aligns.secondary # Top.at_call.secondary
    /\ aligns.primary # aligns.secondary

\* C14: an unspecified `center` processed when both generic axes are known
\* reports exactly one "duplicate alignment" diagnostic, at its own span, and
\* leaves aligns, had and had_center as they were.
C14_Step ==
    (pc = "dedup" /\ iter # <<>> /\ Head(iter).axis = None
        /\ had.primary /\ had.secondary) =>
        /\ f' = Append(f, Diag("duplicate alignment", Head(iter).span, None))
        /\ aligns' = aligns
        /\ had' = had
        /\ had_center' = had_center
        /\ ~had_center'

C14_OverSpecifiedDropped == [][C14_Step]_vars

\* The third request was an unspecified `center`, processed after two
\* requests had set both axes to alignments other than the previous ones and
\* other than `center`: it was reported, and the alignment is as before it.
C14_Witness ==
    /\ pc = "dedup"
    /\ Consumed = 3
    /\ reqs[3].axis = None
    /\ reqs[1].axis # None /\ reqs[2].axis # None
    /\ Len(NewDiags) = 1
    /\ NewDiags[1] = Diag("duplicate alignment", reqs[3].span, None)
    /\ \A axis \in GenAxis :
          /\ had[axis]
          /\ aligns[axis] \notin {"Center", Top.at_call[axis]}

\* C16: within one evaluation, from the entry of dedup_aligns to the return
\* of `align`, an axis that is known stays known and its alignment is never
\* written again, whatever the later requests, deductions, the collapse and
\* the end-of-sequence default do.
C16_Step ==
    pc = "dedup" =>
        \A axis \in GenAxis :
            had[axis] => had'[axis] /\ aligns'[axis] = aligns[axis]

C16_ConfirmedAxisFrozen == [][C16_Step]_vars

\* A directive has returned whose first request set an axis and whose
\* second, an unspecified `center`, was deduced onto the other one; the two
\* keyword requests after them, valid and not `center`, changed neither.
C16_Witness ==
    /\ Returned
    /\ Len(reqs) = 4
    /\ reqs[1].axis # None
    /\ reqs[2].axis = None
    /\ \A k \in {3, 4} : reqs[k].v # "Center" /\ ~Mismatch(reqs[k])
    /\ Len(NewDiags) = 2
    /\ aligns[AxisToGen(reqs[1].axis, state.sys)] = AlignToGen(reqs[1].v, state.sys)
    /\ aligns[OtherAxis(AxisToGen(reqs[1].axis, state.sys))] = "Center"
    /\ \A k \in {3, 4} :
          aligns[AxisToGen(reqs[k].axis, state.sys)] # AlignToGen(reqs[k].v, state.sys)

\* The place of an argument slot in the order of extraction.
SlotIndex(slot) == CHOOSE k \in 1 .. Len(Slots) : Slots[k] = slot

\* The slots of these requests or diagnostics are in the order first, second,
\* horizontal, vertical.
InSlotOrder(seq) ==
    \A i, j \in 1 .. Len(seq) :
        i < j => SlotIndex(seq[i].span[2]) < SlotIndex(seq[j].span[2])

\* C17: the requests of a directive are in the order first positional,
\* second positional, horizontal keyword, vertical keyword, they are consumed
\* front to back, and the diagnostics of the directive are those of consumed
\* requests, in the same order.
C17_SlotOrder ==
    (pc = "dedup" \/ Returned) =>
        /\ InSlotOrder(reqs)
        /\ iter = SubSeq(reqs, Consumed + 1, Len(reqs))
        /\ InSlotOrder(NewDiags)
        /\ \A i \in 1 .. Len(NewDiags) :
              \E k \in 1 .. Consumed : reqs[k].span = NewDiags[i].span

\* A directive has returned with a diagnostic for its second positional, its
\* horizontal and its vertical argument, reported in this order.
C17_Witness ==
    /\ Returned
    /\ Len(NewDiags) = 3
    /\ NewDiags[1].span[2] = "second"
    /\ NewDiags[2].span[2] = "horizontal"
    /\ NewDiags[3].span[2] = "vertical"

\* C18: every request without an axis has the value `center` and comes from
\* a positional argument, a positional request lacks an axis exactly when
\* its value is `center`, and a keyword request carries the axis of its
\* keyword; so the assertion of the axis-less branch holds whenever that
\* branch is about to run.
C18_AxisLessIsCenter ==
    /\ (pc = "dedup" \/ Returned) =>
          \A k \in 1 .. Len(reqs) :
             /\ reqs[k].axis = None => reqs[k].v = "Center" /\ ~Keyword(reqs[k])
             /\ ~Keyword(reqs[k]) => (reqs[k].axis = None <=> reqs[k].v = "Center")
             /\ reqs[k].span[2] = "horizontal" => reqs[k].axis = "Horizontal"
             /\ reqs[k].span[2] = "vertical" => reqs[k].axis = "Vertical"
    /\ (pc = "dedup" /\ iter # <<>> /\ Head(iter).axis = None) =>
          Head(iter).v = "Center"

\* The axis-less branch is about to run for the second positional argument,
\* after a first positional argument with an axis, in a directive whose two
\* keyword arguments are `center` and carry the axes of their keywords.
C18_Witness ==
    /\ pc = "dedup"
    /\ Len(reqs) = 4
    /\ Consumed = 1
    /\ reqs[1].axis # None
    /\ Head(iter).axis = None
    /\ reqs[3].v = "Center" /\ reqs[3].axis = "Horizontal"
    /\ reqs[4].v = "Center" /\ reqs[4].axis = "Vertical"

\* C19: at the start of every iteration and at the end-of-sequence default,
\* a pending `center` means that no generic axis is known; so the collapse
\* and the default, which run only with a `center` pending, write no axis
\* that is known.
C19_PendingMeansNoAxis ==
    (pc = "dedup" \/ Returned) =>
        /\ had_center => ~had.primary /\ ~had.secondary
        /\ (had.primary \/ had.secondary) => Finalize(aligns, had_center) = aligns

\* A directive has returned with its positional `center` still pending
\* after both keyword requests were processed, and the default put it on the
\* primary axis, which had another alignment before.
C19_Witness ==
    /\ Returned
    /\ had_center
    /\ Len(reqs) = 3
    /\ aligns.primary = "Center"
    /\ Top.at_call.primary # "Center"

\* C20: no argument list of `align` makes dedup_aligns report the
\* over-specified "duplicate alignment": an unspecified `center` is always a
\* positional request, and when it is processed at most one axis is known.
C20_NeverOverSpecified ==
    /\ \A k \in 1 .. Len(f) : f[k].msg # "duplicate alignment"
    /\ (pc = "dedup" /\ iter # <<>> /\ Head(iter).axis = None) =>
          /\ ~Keyword(Head(iter))
          /\ ~(had.primary /\ had.secondary)

\* A directive with four requests has returned: the second one was an
\* unspecified `center`, processed with one axis known, and both keyword
\* requests, valid ones, were reported as duplicates of an axis.
C20_Witness ==
    /\ Returned
    /\ Len(reqs) = 4
    /\ reqs[1].axis # None
    /\ reqs[2].axis = None
    /\ ~Mismatch(reqs[3]) /\ ~Mismatch(reqs[4])
    /\ Len(NewDiags) = 2
    /\ \A k \in 1 .. 2 : NewDiags[k].msg = "duplicate alignment for axis"

====
